---- MODULE Spec2Model ----
(***************************************************************************)
(* Model of src/src/optimizing-compiler-thread.cc: the worker thread       *)
(* (OptimizingCompilerThread::Run / CompileNext) and the execution thread  *)
(* (QueueForOptimization / InstallOptimizedFunctions / Stop), interleaved  *)
(* at the granularity of the statements that touch shared state.           *)
(***************************************************************************)
EXTENDS Integers, Sequences, FiniteSets

\* Number of OptimizingCompiler jobs the execution thread creates in a run.
\* Job k is the k-th job handed to QueueForOptimization; each job has its own
\* closure, so a job id also names its function record.
NumJobs == 3

Jobs == 1..NumJobs
NULL == 0
Worker == "worker"
Main == "main"
Threads == {Worker, Main}

\* Values of time_spent_total_ / of Stop's local total_time.
Unwritten == "unwritten"
Lifetime == "lifetime"
Torn == "torn"

VARIABLES
  input_queue_,              \* UnboundQueue<OptimizingCompiler*>
  output_queue_,             \* UnboundQueue<OptimizingCompiler*>
  queue_length_,             \* Atomic32
  input_queue_semaphore_,    \* count of the semaphore
  stop_semaphore_,           \* count of the semaphore
  stop_thread_,              \* AtomicWord
  marker,                    \* code marker of each job's closure (JSFunction)
  relocation_lock,           \* holder of Heap::RelocationLock, or "none"
  pc,                        \* position of each thread
  optimizing_compiler,       \* local/parameter optimizing_compiler, per thread
  compiler,                  \* local of InstallOptimizedFunctions
  ret,                       \* where InstallOptimizedFunctions returns to
  time_spent_total_,         \* written by Run when tracing
  total_time,                \* read by Stop when tracing
  FLAG_parallel_recompilation_delay,
  FLAG_trace_parallel_recompilation,
  next_job,                  \* id of the next job to be created
  compile_order,             \* history: jobs in the order OptimizeGraph ran
  compiled_by,               \* history: thread that compiled each job
  install_order,             \* history: jobs in the order they were installed
  completed_after_stop       \* history: CompileNext calls the worker finished
                             \* after stop_thread_ was stored

vars == <<input_queue_, output_queue_, queue_length_, input_queue_semaphore_,
          stop_semaphore_, stop_thread_, marker, relocation_lock, pc,
          optimizing_compiler, compiler, ret, time_spent_total_, total_time,
          FLAG_parallel_recompilation_delay, FLAG_trace_parallel_recompilation,
          next_job, compile_order, compiled_by, install_order,
          completed_after_stop>>

shared == <<input_queue_, output_queue_, queue_length_, input_queue_semaphore_,
            stop_semaphore_, stop_thread_, marker, relocation_lock,
            time_spent_total_>>
flags == <<FLAG_parallel_recompilation_delay, FLAG_trace_parallel_recompilation>>
history == <<next_job, compile_order, compiled_by, install_order,
             completed_after_stop>>

Range(s) == {s[i] : i \in 1..Len(s)}

----------------------------------------------------------------------------
\* JSFunction code markers (function record).
IsInRecompileQueue(m, f) == m[f] = "InRecompileQueue"

MarkInRecompileQueue(m, f) == [m EXCEPT ![f] = "InRecompileQueue"]

MarkForInstallingRecompiledCode(m, f) == [m EXCEPT ![f] = "InstallRecompiledCode"]

InstallOptimizedCode(m, f) == [m EXCEPT ![f] = "Optimized"]

\* UnboundQueue.
Enqueue(q, rec) == Append(q, rec)

IsEmpty(q) == q = <<>>

Peek(q) == Head(q)

Dequeue(q) == Tail(q)

Goto(t, label) == pc' = [pc EXCEPT ![t] = label]

----------------------------------------------------------------------------
Init ==
  /\ input_queue_ = <<>>
  /\ output_queue_ = <<>>
  /\ queue_length_ = 0
  /\ input_queue_semaphore_ = 0
  /\ stop_semaphore_ = 0
  /\ stop_thread_ = FALSE
  /\ marker = [f \in Jobs |-> "Lazy"]
  /\ relocation_lock = "none"
  /\ pc = [t \in Threads |-> IF t = Worker THEN "Wait" ELSE "Idle"]
  /\ optimizing_compiler = [t \in Threads |-> NULL]
  /\ compiler = NULL
  /\ ret = "Idle"
  /\ time_spent_total_ = Unwritten
  /\ total_time = Unwritten
  /\ FLAG_parallel_recompilation_delay \in {0, 1}
  /\ FLAG_trace_parallel_recompilation \in BOOLEAN
  /\ next_job = 1
  /\ compile_order = <<>>
  /\ compiled_by = [j \in Jobs |-> "none"]
  /\ install_order = <<>>
  /\ completed_after_stop = 0

----------------------------------------------------------------------------
\* OptimizingCompilerThread::Run

RunWait ==
  /\ pc[Worker] = "Wait"
  /\ input_queue_semaphore_ > 0
  /\ input_queue_semaphore_' = input_queue_semaphore_ - 1
  /\ Goto(Worker, "Delay")
  /\ UNCHANGED <<input_queue_, output_queue_, queue_length_, stop_semaphore_,
                 stop_thread_, marker, relocation_lock, optimizing_compiler,
                 compiler, ret, time_spent_total_, total_time, flags, history>>

RunDelay ==
  /\ pc[Worker] = "Delay"
  /\ Goto(Worker, "CheckStop")
  /\ UNCHANGED <<shared, optimizing_compiler, compiler, ret, total_time,
                 flags, history>>
\* Mutation: the stop flag is honoured only once the input queue is empty.
RunCheckStop_DrainFirst ==
  /\ pc[Worker] = "CheckStop"
  /\ IF stop_thread_ /\ IsEmpty(input_queue_)
       THEN Goto(Worker, "Ack")
       ELSE Goto(Worker, "cn_lock")
  /\ UNCHANGED <<shared, optimizing_compiler, compiler, ret, total_time,
                 flags, history>>
\* Mutation: the stop flag is not read, every wake-up compiles.
RunCheckStop_Ignore ==
  /\ pc[Worker] = "CheckStop"
  /\ Goto(Worker, "cn_lock")
  /\ UNCHANGED <<shared, optimizing_compiler, compiler, ret, total_time,
                 flags, history>>

RunCheckStop ==
  /\ pc[Worker] = "CheckStop"
  /\ IF stop_thread_ THEN Goto(Worker, "Ack") ELSE Goto(Worker, "cn_lock")
  /\ UNCHANGED <<shared, optimizing_compiler, compiler, ret, total_time,
                 flags, history>>

RunAck ==
  /\ pc[Worker] = "Ack"
  /\ stop_semaphore_' = stop_semaphore_ + 1
  /\ Goto(Worker, "Trace")
  /\ UNCHANGED <<input_queue_, output_queue_, queue_length_,
                 input_queue_semaphore_, stop_thread_, marker, relocation_lock,
                 optimizing_compiler, compiler, ret, time_spent_total_,
                 total_time, flags, history>>

RunTrace ==
  /\ pc[Worker] = "Trace"
  /\ time_spent_total_' = IF FLAG_trace_parallel_recompilation
                            THEN Lifetime ELSE time_spent_total_
  /\ Goto(Worker, "Done")
  /\ UNCHANGED <<input_queue_, output_queue_, queue_length_,
                 input_queue_semaphore_, stop_semaphore_, stop_thread_, marker,
                 relocation_lock, optimizing_compiler, compiler, ret,
                 total_time, flags, history>>

----------------------------------------------------------------------------
\* OptimizingCompilerThread::CompileNext, run by thread t
\* Mutation: CompileNext runs without taking the relocation lock.
CnLock_NoAcquire(t) ==
  /\ pc[t] = "cn_lock"
  /\ Goto(t, "cn_dequeue")
  /\ UNCHANGED <<shared, optimizing_compiler, compiler, ret, total_time,
                 flags, history>>

CnLock(t) ==
  /\ pc[t] = "cn_lock"
  /\ relocation_lock = "none"
  /\ relocation_lock' = t
  /\ Goto(t, "cn_dequeue")
  /\ UNCHANGED <<input_queue_, output_queue_, queue_length_,
                 input_queue_semaphore_, stop_semaphore_, stop_thread_, marker,
                 optimizing_compiler, compiler, ret, time_spent_total_,
                 total_time, flags, history>>
\* Mutation: the front job is read but not removed from the input queue.
CnDequeue_NoRemove(t) ==
  /\ pc[t] = "cn_dequeue"
  /\ IF IsEmpty(input_queue_)
       THEN /\ Goto(t, "crashed")
            /\ UNCHANGED <<input_queue_, optimizing_compiler>>
       ELSE /\ optimizing_compiler' =
                 [optimizing_compiler EXCEPT ![t] = Peek(input_queue_)]
            /\ UNCHANGED input_queue_
            /\ Goto(t, "cn_decrement")
  /\ UNCHANGED <<output_queue_, queue_length_, input_queue_semaphore_,
                 stop_semaphore_, stop_thread_, marker, relocation_lock,
                 compiler, ret, time_spent_total_, total_time, flags, history>>

\* Mutation: the most recently queued job is taken instead of the oldest.
CnDequeue_Last(t) ==
  /\ pc[t] = "cn_dequeue"
  /\ IF IsEmpty(input_queue_)
       THEN /\ Goto(t, "crashed")
            /\ UNCHANGED <<input_queue_, optimizing_compiler>>
       ELSE /\ optimizing_compiler' =
                 [optimizing_compiler EXCEPT
                    ![t] = input_queue_[Len(input_queue_)]]
            /\ input_queue_' = SubSeq(input_queue_, 1, Len(input_queue_) - 1)
            /\ Goto(t, "cn_decrement")
  /\ UNCHANGED <<output_queue_, queue_length_, input_queue_semaphore_,
                 stop_semaphore_, stop_thread_, marker, relocation_lock,
                 compiler, ret, time_spent_total_, total_time, flags, history>>

\* Dequeue from an empty UnboundQueue dereferences a null node.
CnDequeue(t) ==
  /\ pc[t] = "cn_dequeue"
  /\ IF IsEmpty(input_queue_)
       THEN /\ Goto(t, "crashed")
            /\ UNCHANGED <<input_queue_, optimizing_compiler>>
       ELSE /\ optimizing_compiler' =
                 [optimizing_compiler EXCEPT ![t] = Peek(input_queue_)]
            /\ input_queue_' = Dequeue(input_queue_)
            /\ Goto(t, "cn_decrement")
  /\ UNCHANGED <<output_queue_, queue_length_, input_queue_semaphore_,
                 stop_semaphore_, stop_thread_, marker, relocation_lock,
                 compiler, ret, time_spent_total_, total_time, flags, history>>
\* Mutation: the pending count is not decremented after the dequeue.
CnDecrement_None(t) ==
  /\ pc[t] = "cn_decrement"
  /\ Goto(t, "cn_optimize")
  /\ UNCHANGED <<shared, optimizing_compiler, compiler, ret, total_time,
                 flags, history>>

CnDecrement(t) ==
  /\ pc[t] = "cn_decrement"
  /\ queue_length_' = queue_length_ - 1
  /\ Goto(t, "cn_optimize")
  /\ UNCHANGED <<input_queue_, output_queue_, input_queue_semaphore_,
                 stop_semaphore_, stop_thread_, marker, relocation_lock,
                 optimizing_compiler, compiler, ret, time_spent_total_,
                 total_time, flags, history>>
\* Mutation: the closure is marked for install before the job is published.
CnOptimize_FlipFirst(t) ==
  /\ pc[t] = "cn_optimize"
  /\ compile_order' = Append(compile_order, optimizing_compiler[t])
  /\ compiled_by' = [compiled_by EXCEPT ![optimizing_compiler[t]] = t]
  /\ marker' = MarkForInstallingRecompiledCode(marker, optimizing_compiler[t])
  /\ Goto(t, "cn_enqueue")
  /\ UNCHANGED <<input_queue_, output_queue_, queue_length_,
                 input_queue_semaphore_, stop_semaphore_, stop_thread_,
                 relocation_lock, time_spent_total_, optimizing_compiler,
                 compiler, ret, total_time, flags, next_job, install_order,
                 completed_after_stop>>

CnOptimize(t) ==
  /\ pc[t] = "cn_optimize"
  /\ compile_order' = Append(compile_order, optimizing_compiler[t])
  /\ compiled_by' = [compiled_by EXCEPT ![optimizing_compiler[t]] = t]
  /\ Goto(t, "cn_enqueue")
  /\ UNCHANGED <<shared, optimizing_compiler, compiler, ret, total_time,
                 flags, next_job, install_order, completed_after_stop>>

CnEnqueue(t) ==
  /\ pc[t] = "cn_enqueue"
  /\ output_queue_' = Enqueue(output_queue_, optimizing_compiler[t])
  /\ Goto(t, "cn_mark")
  /\ UNCHANGED <<input_queue_, queue_length_, input_queue_semaphore_,
                 stop_semaphore_, stop_thread_, marker, relocation_lock,
                 optimizing_compiler, compiler, ret, time_spent_total_,
                 total_time, flags, history>>
\* Mutation: the closure is left unmarked after the enqueue.
CnMark_NoMark(t) ==
  /\ pc[t] = "cn_mark"
  /\ Goto(t, "cn_unlock")
  /\ UNCHANGED <<shared, optimizing_compiler, compiler, ret, total_time,
                 flags, history>>

CnMark(t) ==
  /\ pc[t] = "cn_mark"
  /\ marker' = MarkForInstallingRecompiledCode(marker, optimizing_compiler[t])
  /\ Goto(t, "cn_unlock")
  /\ UNCHANGED <<input_queue_, output_queue_, queue_length_,
                 input_queue_semaphore_, stop_semaphore_, stop_thread_,
                 relocation_lock, optimizing_compiler, compiler, ret,
                 time_spent_total_, total_time, flags, history>>

\* End of CompileNext: the RelocationLock destructor runs and the call returns,
\* to the head of Run's loop on the worker, to the install pass in Stop's drain.
CnUnlock(t) ==
  /\ pc[t] = "cn_unlock"
  /\ relocation_lock' = "none"
  /\ optimizing_compiler' = [optimizing_compiler EXCEPT ![t] = NULL]
  /\ IF t = Worker
       THEN Goto(t, "Wait") /\ UNCHANGED ret
       ELSE Goto(t, "io_test") /\ ret' = "s_loop"
  /\ completed_after_stop' = IF t = Worker /\ stop_thread_
                               THEN completed_after_stop + 1
                               ELSE completed_after_stop
  /\ UNCHANGED <<input_queue_, output_queue_, queue_length_,
                 input_queue_semaphore_, stop_semaphore_, stop_thread_, marker,
                 compiler, time_spent_total_, total_time, flags, next_job,
                 compile_order, compiled_by, install_order>>

CompileNext(t) ==
  \/ CnLock(t)
  \/ CnDequeue(t)
  \/ CnDecrement(t)
  \/ CnOptimize(t)
  \/ CnEnqueue(t)
  \/ CnMark(t)
  \/ CnUnlock(t)

----------------------------------------------------------------------------
\* OptimizingCompilerThread::QueueForOptimization

\* The caller creates the job, marks its closure as queued for recompilation
\* and calls QueueForOptimization with it.
QueueCall ==
  /\ pc[Main] = "Idle"
  /\ next_job <= NumJobs
  /\ marker' = MarkInRecompileQueue(marker, next_job)
  /\ optimizing_compiler' = [optimizing_compiler EXCEPT ![Main] = next_job]
  /\ next_job' = next_job + 1
  /\ Goto(Main, "q_increment")
  /\ UNCHANGED <<input_queue_, output_queue_, queue_length_,
                 input_queue_semaphore_, stop_semaphore_, stop_thread_,
                 relocation_lock, compiler, ret, time_spent_total_, total_time,
                 flags, compile_order, compiled_by, install_order,
                 completed_after_stop>>

QueueIncrement ==
  /\ pc[Main] = "q_increment"
  /\ queue_length_' = queue_length_ + 1
  /\ Goto(Main, "q_enqueue")
  /\ UNCHANGED <<input_queue_, output_queue_, input_queue_semaphore_,
                 stop_semaphore_, stop_thread_, marker, relocation_lock,
                 optimizing_compiler, compiler, ret, time_spent_total_,
                 total_time, flags, history>>

QueueEnqueue ==
  /\ pc[Main] = "q_enqueue"
  /\ input_queue_' = Enqueue(input_queue_, optimizing_compiler[Main])
  /\ Goto(Main, "q_signal")
  /\ UNCHANGED <<output_queue_, queue_length_, input_queue_semaphore_,
                 stop_semaphore_, stop_thread_, marker, relocation_lock,
                 optimizing_compiler, compiler, ret, time_spent_total_,
                 total_time, flags, history>>
\* Mutation: the worker is not woken after the enqueue.
QueueSignal_NoSignal ==
  /\ pc[Main] = "q_signal"
  /\ optimizing_compiler' = [optimizing_compiler EXCEPT ![Main] = NULL]
  /\ Goto(Main, "Idle")
  /\ UNCHANGED <<shared, compiler, ret, total_time, flags, history>>

QueueSignal ==
  /\ pc[Main] = "q_signal"
  /\ input_queue_semaphore_' = input_queue_semaphore_ + 1
  /\ optimizing_compiler' = [optimizing_compiler EXCEPT ![Main] = NULL]
  /\ Goto(Main, "Idle")
  /\ UNCHANGED <<input_queue_, output_queue_, queue_length_, stop_semaphore_,
                 stop_thread_, marker, relocation_lock, compiler, ret,
                 time_spent_total_, total_time, flags, history>>

QueueForOptimization ==
  \/ QueueCall
  \/ QueueIncrement
  \/ QueueEnqueue
  \/ QueueSignal

----------------------------------------------------------------------------
\* OptimizingCompilerThread::InstallOptimizedFunctions

InstallCall ==
  /\ pc[Main] = "Idle"
  /\ ret' = "Idle"
  /\ Goto(Main, "io_test")
  /\ UNCHANGED <<shared, optimizing_compiler, compiler, total_time, flags,
                 history>>
\* Mutation: finding the output queue empty resets the pending count.
InstallTest_ResetLength ==
  /\ pc[Main] = "io_test"
  /\ IF IsEmpty(output_queue_)
       THEN Goto(Main, ret) /\ compiler' = NULL /\ queue_length_' = 0
       ELSE /\ Goto(Main, "io_check") /\ compiler' = Peek(output_queue_)
            /\ UNCHANGED queue_length_
  /\ UNCHANGED <<input_queue_, output_queue_, input_queue_semaphore_,
                 stop_semaphore_, stop_thread_, marker, relocation_lock,
                 time_spent_total_, optimizing_compiler, ret, total_time,
                 flags, history>>

\* while (!output_queue_.IsEmpty()) { compiler = *output_queue_.Peek();
InstallTest ==
  /\ pc[Main] = "io_test"
  /\ IF IsEmpty(output_queue_)
       THEN Goto(Main, ret) /\ compiler' = NULL
       ELSE Goto(Main, "io_check") /\ compiler' = Peek(output_queue_)
  /\ UNCHANGED <<shared, optimizing_compiler, ret, total_time, flags, history>>
\* Mutation: the pending test is dropped, the front job is always taken.
InstallCheck_NoGuard ==
  /\ pc[Main] = "io_check"
  /\ Goto(Main, "io_install") /\ UNCHANGED compiler
  /\ UNCHANGED <<shared, optimizing_compiler, ret, total_time, flags, history>>

\* Mutation: a pending front job makes the loop continue instead of break.
InstallCheck_Continue ==
  /\ pc[Main] = "io_check"
  /\ IF IsInRecompileQueue(marker, compiler)
       THEN Goto(Main, "io_test") /\ compiler' = NULL
       ELSE Goto(Main, "io_install") /\ UNCHANGED compiler
  /\ UNCHANGED <<shared, optimizing_compiler, ret, total_time, flags, history>>
\* Mutation: a pending front job is waited for instead of ending the pass.
InstallCheck_Spin ==
  /\ pc[Main] = "io_check"
  /\ ~IsInRecompileQueue(marker, compiler)
  /\ Goto(Main, "io_install") /\ UNCHANGED compiler
  /\ UNCHANGED <<shared, optimizing_compiler, ret, total_time, flags, history>>
\* Mutation: the pending test is inverted.
InstallCheck_Inverted ==
  /\ pc[Main] = "io_check"
  /\ IF ~IsInRecompileQueue(marker, compiler)
       THEN Goto(Main, ret) /\ compiler' = NULL
       ELSE Goto(Main, "io_install") /\ UNCHANGED compiler
  /\ UNCHANGED <<shared, optimizing_compiler, ret, total_time, flags, history>>

\* if (compiler->info()->closure()->IsInRecompileQueue()) break;
InstallCheck ==
  /\ pc[Main] = "io_check"
  /\ IF IsInRecompileQueue(marker, compiler)
       THEN Goto(Main, ret) /\ compiler' = NULL
       ELSE Goto(Main, "io_install") /\ UNCHANGED compiler
  /\ UNCHANGED <<shared, optimizing_compiler, ret, total_time, flags, history>>

\* output_queue_.Dequeue(&compiler); Compiler::InstallOptimizedCode(compiler);
InstallDequeue ==
  /\ pc[Main] = "io_install"
  /\ output_queue_' = Dequeue(output_queue_)
  /\ marker' = InstallOptimizedCode(marker, Peek(output_queue_))
  /\ install_order' = Append(install_order, Peek(output_queue_))
  /\ compiler' = NULL
  /\ Goto(Main, "io_test")
  /\ UNCHANGED <<input_queue_, queue_length_, input_queue_semaphore_,
                 stop_semaphore_, stop_thread_, relocation_lock,
                 optimizing_compiler, ret, time_spent_total_, total_time,
                 flags, next_job, compile_order, compiled_by,
                 completed_after_stop>>

InstallOptimizedFunctions ==
  \/ InstallCall
  \/ InstallTest
  \/ InstallCheck
  \/ InstallDequeue

----------------------------------------------------------------------------
\* OptimizingCompilerThread::Stop

StopCall ==
  /\ pc[Main] = "Idle"
  /\ Goto(Main, "s_store")
  /\ UNCHANGED <<shared, optimizing_compiler, compiler, ret, total_time,
                 flags, history>>

StopStore ==
  /\ pc[Main] = "s_store"
  /\ stop_thread_' = TRUE
  /\ Goto(Main, "s_signal")
  /\ UNCHANGED <<input_queue_, output_queue_, queue_length_,
                 input_queue_semaphore_, stop_semaphore_, marker,
                 relocation_lock, optimizing_compiler, compiler, ret,
                 time_spent_total_, total_time, flags, history>>
\* Mutation: Stop does not signal the input semaphore.
StopSignal_NoSignal ==
  /\ pc[Main] = "s_signal"
  /\ Goto(Main, "s_wait")
  /\ UNCHANGED <<shared, optimizing_compiler, compiler, ret, total_time,
                 flags, history>>

StopSignal ==
  /\ pc[Main] = "s_signal"
  /\ input_queue_semaphore_' = input_queue_semaphore_ + 1
  /\ Goto(Main, "s_wait")
  /\ UNCHANGED <<input_queue_, output_queue_, queue_length_, stop_semaphore_,
                 stop_thread_, marker, relocation_lock, optimizing_compiler,
                 compiler, ret, time_spent_total_, total_time, flags, history>>

StopWait ==
  /\ pc[Main] = "s_wait"
  /\ stop_semaphore_ > 0
  /\ stop_semaphore_' = stop_semaphore_ - 1
  /\ Goto(Main, "s_drain")
  /\ UNCHANGED <<input_queue_, output_queue_, queue_length_,
                 input_queue_semaphore_, stop_thread_, marker, relocation_lock,
                 optimizing_compiler, compiler, ret, time_spent_total_,
                 total_time, flags, history>>
\* Mutation: the drain runs whatever the delay flag says.
StopDrain_Always ==
  /\ pc[Main] = "s_drain"
  /\ Goto(Main, "io_test") /\ ret' = "s_loop"
  /\ UNCHANGED <<shared, optimizing_compiler, compiler, total_time, flags,
                 history>>

\* if (FLAG_parallel_recompilation_delay != 0) { InstallOptimizedFunctions();
StopDrain ==
  /\ pc[Main] = "s_drain"
  /\ IF FLAG_parallel_recompilation_delay # 0
       THEN Goto(Main, "io_test") /\ ret' = "s_loop"
       ELSE Goto(Main, "s_report") /\ UNCHANGED ret
  /\ UNCHANGED <<shared, optimizing_compiler, compiler, total_time, flags,
                 history>>
\* Mutation: the drain loop stops one job early.
StopLoop_OffByOne ==
  /\ pc[Main] = "s_loop"
  /\ IF queue_length_ > 1
       THEN Goto(Main, "cn_lock")
       ELSE Goto(Main, "s_report")
  /\ UNCHANGED <<shared, optimizing_compiler, compiler, ret, total_time,
                 flags, history>>

\* while (NoBarrier_Load(&queue_length_) > 0) { CompileNext(); ...
StopLoop ==
  /\ pc[Main] = "s_loop"
  /\ IF queue_length_ > 0
       THEN Goto(Main, "cn_lock")
       ELSE Goto(Main, "s_report")
  /\ UNCHANGED <<shared, optimizing_compiler, compiler, ret, total_time,
                 flags, history>>

\* The read of time_spent_total_ is not ordered after the worker's write: a
\* read that overlaps the pending write can return either value or a torn one.
StopReport ==
  /\ pc[Main] = "s_report"
  /\ IF FLAG_trace_parallel_recompilation
       THEN IF pc[Worker] = "Trace"
              THEN total_time' \in {time_spent_total_, Lifetime, Torn}
              ELSE total_time' = time_spent_total_
       ELSE UNCHANGED total_time
  /\ Goto(Main, "Stopped")
  /\ UNCHANGED <<shared, optimizing_compiler, compiler, ret, flags, history>>

Stop ==
  \/ StopCall
  \/ StopStore
  \/ StopSignal
  \/ StopWait
  \/ StopDrain
  \/ StopLoop
  \/ StopReport

----------------------------------------------------------------------------
Run ==
  \/ RunWait
  \/ RunDelay
  \/ RunCheckStop
  \/ RunAck
  \/ RunTrace

WorkerNext == Run \/ CompileNext(Worker)

MainNext ==
  \/ QueueForOptimization
  \/ InstallOptimizedFunctions
  \/ Stop
  \/ CompileNext(Main)

Next == WorkerNext \/ MainNext

Spec == Init /\ [][Next]_vars

TypeOK ==
  /\ input_queue_ \in Seq(Jobs)
  /\ output_queue_ \in Seq(Jobs)
  /\ queue_length_ \in 0..NumJobs
  /\ input_queue_semaphore_ \in 0..(NumJobs + 1)
  /\ stop_semaphore_ \in 0..1
  /\ stop_thread_ \in BOOLEAN
  /\ relocation_lock \in Threads \cup {"none"}
  /\ optimizing_compiler \in [Threads -> Jobs \cup {NULL}]
  /\ compiler \in Jobs \cup {NULL}
  /\ \A t \in Threads : pc[t] # "crashed"

----------------------------------------------------------------------------
\* Fairness: the worker thread is scheduled, and the execution thread finishes
\* the calls it is in and keeps polling; calling Stop is never forced.
MainProgress ==
  \/ QueueForOptimization
  \/ InstallOptimizedFunctions
  \/ CompileNext(Main)
  \/ StopStore
  \/ StopSignal
  \/ StopWait
  \/ StopDrain
  \/ StopLoop
  \/ StopReport

LiveSpec == Spec /\ WF_vars(WorkerNext) /\ WF_vars(MainProgress)

NoDuplicates(s) == \A i, k \in 1..Len(s) : i # k => s[i] # s[k]

InOrder(s) == \A i \in 1..Len(s) : s[i] = i

Queued(j) == j < next_job

\* The execution thread is inside Stop, past stop_semaphore_->Wait().
AckReceived == stop_thread_ /\ pc[Main] \notin {"s_signal", "s_wait"}

----------------------------------------------------------------------------
\* C1: whenever InstallOptimizedFunctions is about to dequeue and install, the
\* job at the front of the output queue is the one it peeked and its closure is
\* no longer in the recompile queue: it has been marked for install.
RaceGuard ==
  pc[Main] = "io_install" =>
    /\ ~IsEmpty(output_queue_)
    /\ Peek(output_queue_) = compiler
    /\ ~IsInRecompileQueue(marker, compiler)
    /\ marker[compiler] = "InstallRecompiledCode"

\* The install pass takes the front job while the worker sits between the
\* enqueue and the mark of a later job.
RaceGuardWitness ==
  /\ pc[Main] = "io_install"
  /\ pc[Worker] = "cn_mark"
  /\ Len(output_queue_) = 2

NoLoss ==
  \A j \in Jobs :
    Queued(j) ~> (\/ compiled_by[j] = Worker /\ j \in Range(install_order)
                  \/ stop_thread_)

NoLossWitness ==
  /\ ~stop_thread_
  /\ Len(install_order) = NumJobs
  /\ \A j \in Jobs : compiled_by[j] = Worker

\* C4: no job is compiled twice, installed twice, or present twice in a queue.
NoDuplication ==
  /\ NoDuplicates(compile_order)
  /\ NoDuplicates(install_order)
  /\ NoDuplicates(output_queue_)
  /\ NoDuplicates(input_queue_)
  /\ \A j \in Range(install_order) : j \notin Range(output_queue_)
  /\ \A j \in Range(compile_order) : j \notin Range(input_queue_)

\* All jobs went through, some compiled by the worker, some by Stop's drain.
NoDuplicationWitness ==
  /\ Len(compile_order) = NumJobs
  /\ Len(install_order) = NumJobs
  /\ compiled_by[1] = Worker
  /\ compiled_by[NumJobs] = Main

\* C5: jobs are compiled in the order they were queued and installed in the
\* order they were queued (job k is the k-th job queued).
FifoOrder ==
  /\ InOrder(compile_order)
  /\ InOrder(install_order)

\* One job installed, a later one published, a still later one waiting.
FifoOrderWitness ==
  /\ Len(install_order) >= 1
  /\ Len(output_queue_) >= 1
  /\ Len(input_queue_) >= 1

\* C6: with the delay enabled, when Stop has returned every queued job has
\* been compiled and installed, both queues are empty and queue_length_ is 0.
DrainOnStop ==
  (pc[Main] = "Stopped" /\ FLAG_parallel_recompilation_delay # 0) =>
    /\ \A j \in Jobs : Queued(j) =>
         j \in Range(compile_order) /\ j \in Range(install_order)
    /\ IsEmpty(input_queue_)
    /\ IsEmpty(output_queue_)
    /\ queue_length_ = 0

\* Stop returned after draining NumJobs jobs none of which the worker compiled.
DrainOnStopWitness ==
  /\ pc[Main] = "Stopped"
  /\ FLAG_parallel_recompilation_delay # 0
  /\ next_job = NumJobs + 1
  /\ \A j \in Jobs : compiled_by[j] = Main /\ j \in Range(install_order)

\* C7: once Stop has received the stop acknowledgement the worker has exited,
\* and with tracing on Stop reads the time_spent_total_ the worker wrote.
AckMeansWorkerExited ==
  FLAG_trace_parallel_recompilation =>
    /\ AckReceived => pc[Worker] = "Done"
    /\ pc[Main] = "Stopped" => total_time = Lifetime

\* C8: once the stop flag is set, the worker exits and Stop returns.
StopTerminates ==
  stop_thread_ ~> (pc[Main] = "Stopped" /\ pc[Worker] = "Done")

\* Stop returned and the worker exited with jobs and wake signals left over.
StopTerminatesWitness ==
  /\ pc[Main] = "Stopped"
  /\ pc[Worker] = "Done"
  /\ Len(input_queue_) >= 2
  /\ input_queue_semaphore_ >= 2

EmptyInstallNoOp ==
  [][(/\ pc[Main] = "io_test"
      /\ pc'[Main] # "io_test"
      /\ IsEmpty(output_queue_))
     => (/\ pc'[Main] = ret
         /\ UNCHANGED <<input_queue_, output_queue_, queue_length_, marker,
                        stop_thread_, input_queue_semaphore_, stop_semaphore_,
                        relocation_lock, install_order, compile_order>>)]_vars

\* The install pass tests an empty output queue while jobs are still pending.
EmptyInstallNoOpWitness ==
  /\ pc[Main] = "io_test"
  /\ IsEmpty(output_queue_)
  /\ queue_length_ >= 1
  /\ ret = "Idle"

----------------------------------------------------------------------------
\* Positions of the worker after it has read stop_thread_ as set.
WorkerStopped == {"Ack", "Trace", "Done"}

\* Positions inside CompileNext between the input Dequeue and the output
\* Enqueue: the job is held only by the thread's local optimizing_compiler.
Compiling == {"cn_decrement", "cn_optimize", "cn_enqueue"}

InFlight(j) == \E t \in Threads : pc[t] \in Compiling /\ optimizing_compiler[t] = j

Occurrences(s, j) == Cardinality({i \in 1..Len(s) : s[i] = j})

\* C11: after stop_thread_ is stored the worker finishes at most one
\* CompileNext, and once it has read the flag as set it never enters
\* CompileNext again.
ShutdownOneInFlight ==
  [][/\ completed_after_stop' <= 1
     /\ (pc[Worker] = "CheckStop" /\ stop_thread_)
          => pc'[Worker] \in {"CheckStop", "Ack"}
     /\ pc[Worker] \in WorkerStopped => pc'[Worker] \in WorkerStopped]_vars

\* The worker finished one compile after the flag was stored and exited with
\* jobs and wake signals left in the input queue.
ShutdownOneInFlightWitness ==
  /\ completed_after_stop = 1
  /\ pc[Worker] = "Done"
  /\ Len(input_queue_) >= 1
  /\ input_queue_semaphore_ >= 1

\* C12: the execution thread always has a step of its own to take, wherever
\* the worker is, except at stop_semaphore_->Wait() inside Stop (and after
\* Stop has returned).
NonBlocking ==
  (~ENABLED <<MainNext>>_vars) => pc[Main] \in {"s_wait", "Stopped"}

\* The install pass is running while the worker holds the relocation lock
\* between the output enqueue and the mark.
NonBlockingWitness ==
  /\ pc[Main] = "io_check"
  /\ pc[Worker] = "cn_mark"
  /\ relocation_lock = Worker
  /\ IsInRecompileQueue(marker, compiler)
  /\ ENABLED <<MainNext>>_vars

\* C13: every job is in at most one of the input queue, a CompileNext in
\* flight and the output queue, and at most once there.
SinglePlace ==
  \A j \in Jobs :
    Occurrences(input_queue_, j) + Occurrences(output_queue_, j)
      + Cardinality({t \in Threads : pc[t] \in Compiling
                                      /\ optimizing_compiler[t] = j}) <= 1

\* Three jobs, one in each place.
SinglePlaceWitness ==
  /\ \E j \in Jobs : j \in Range(input_queue_)
  /\ \E j \in Jobs : InFlight(j)
  /\ \E j \in Jobs : j \in Range(output_queue_)

\* Positions inside CompileNext after the RelocationLock constructor.
InCompileNext ==
  {"cn_dequeue", "cn_decrement", "cn_optimize", "cn_enqueue", "cn_mark",
   "cn_unlock"}

\* Positions of the worker in Run, outside CompileNext.
InRunLoop == {"Wait", "Delay", "CheckStop", "Ack", "Trace", "Done"}

\* C14: with the delay at zero, from the stop acknowledgement to the return
\* of Stop the execution thread runs neither CompileNext nor
\* InstallOptimizedFunctions, and the queues, the pending count and the
\* closures' marks do not change.
NoDrainWithoutDelay ==
  [][(FLAG_parallel_recompilation_delay = 0 /\ AckReceived)
     => (/\ pc'[Main] \in {"s_drain", "s_report", "Stopped"}
         /\ UNCHANGED <<input_queue_, output_queue_, queue_length_, marker,
                        compile_order, install_order>>)]_vars

\* Stop returned without delay and left a queued, uncompiled job behind.
NoDrainWithoutDelayWitness ==
  /\ pc[Main] = "Stopped"
  /\ FLAG_parallel_recompilation_delay = 0
  /\ queue_length_ >= 1
  /\ \E j \in Jobs : j \in Range(input_queue_) /\ compiled_by[j] = "none"

\* C15: queue_length_ is the length of the input queue, plus one while
\* QueueForOptimization has incremented but not yet enqueued, plus one for
\* each CompileNext that has dequeued but not yet decremented.
PendingCount ==
  queue_length_ =
    Len(input_queue_)
      + (IF pc[Main] = "q_enqueue" THEN 1 ELSE 0)
      + Cardinality({t \in Threads : pc[t] = "cn_decrement"})

\* All jobs queued and none dequeued yet, both threads between calls.
PendingCountWitness ==
  /\ queue_length_ = NumJobs
  /\ Len(input_queue_) = NumJobs
  /\ pc[Main] = "Idle"
  /\ pc[Worker] = "Wait"

\* C16: a thread inside CompileNext past the lock constructor holds the
\* relocation lock, and the worker does not hold it anywhere in Run outside
\* CompileNext.
LockHeldWhileCompiling ==
  /\ \A t \in Threads : pc[t] \in InCompileNext => relocation_lock = t
  /\ pc[Worker] \in InRunLoop => relocation_lock # Worker

\* The worker is about to publish a job, holding the lock, while an earlier
\* job waits in the output queue.
LockHeldWhileCompilingWitness ==
  /\ pc[Worker] = "cn_enqueue"
  /\ relocation_lock = Worker
  /\ Len(output_queue_) >= 1

\* Lifecycle state of a job: 0 created, 1 Queued, 2 Compiling, 3 Published,
\* 4 Eligible, 5 Installed.
Rank(j) ==
  IF marker[j] = "Optimized" THEN 5
  ELSE IF j \in Range(output_queue_)
         THEN (IF IsInRecompileQueue(marker, j) THEN 3 ELSE 4)
  ELSE IF InFlight(j) THEN 2
  ELSE IF j \in Range(input_queue_) THEN 1
  ELSE 0

\* Positions of CompileNext from the first assertion to the second one.
AssertWindow == {"cn_optimize", "cn_enqueue", "cn_mark"}

\* Stop has executed input_queue_semaphore_->Signal().
StopSignalled == stop_thread_ /\ pc[Main] # "s_signal"

\* input_queue_semaphore_ holds no more signals than queued jobs plus Stop's.
SignalsBounded ==
  input_queue_semaphore_ <=
    Len(input_queue_) + (IF StopSignalled THEN 1 ELSE 0)

\* A thread that is about to run input_queue_.Dequeue finds a job there.
DequeueFindsJob ==
  \A t \in Threads :
    pc[t] \in {"cn_lock", "cn_dequeue"} => ~IsEmpty(input_queue_)

\* C17: in every step every job keeps its lifecycle state or moves to the
\* next one.
LifecycleMonotone ==
  [][\A j \in Jobs : Rank(j)' \in {Rank(j), Rank(j) + 1}]_vars

\* Three jobs: one installed, one eligible, one published.
LifecycleMonotoneWitness ==
  \E a, b, c \in Jobs : Rank(a) = 5 /\ Rank(b) = 4 /\ Rank(c) = 3

\* C18: from the first assertion of CompileNext to the second the job's
\* closure is in the recompile queue, and a closure leaves the recompile
\* queue only by the mark of the CompileNext that holds its job.
CompileNextAsserts ==
  [][/\ \A t \in Threads :
          pc'[t] \in AssertWindow
            => IsInRecompileQueue(marker', optimizing_compiler'[t])
     /\ \A j \in Jobs :
          (IsInRecompileQueue(marker, j) /\ ~IsInRecompileQueue(marker', j))
            => (/\ marker'[j] = "InstallRecompiledCode"
                /\ \E t \in Threads :
                     pc[t] = "cn_mark" /\ optimizing_compiler[t] = j)]_vars

\* The install pass is testing the very job the worker has published and not
\* yet marked.
CompileNextAssertsWitness ==
  /\ pc[Worker] = "cn_mark"
  /\ pc[Main] = "io_check"
  /\ compiler = optimizing_compiler[Worker]

\* C19 as stated: CompileNext never finds the input queue empty, on the worker
\* or in Stop's drain, and the unconsumed wake signals never exceed the queued
\* jobs plus Stop's signal.
NeverDequeueEmptyAsStated ==
  /\ DequeueFindsJob
  /\ pc[Main] = "s_loop" /\ queue_length_ > 0 => ~IsEmpty(input_queue_)
  /\ SignalsBounded

\* C19 amended: the bound on the wake signals holds until Stop's drain takes
\* jobs from the input queue on the execution thread.
NeverDequeueEmpty ==
  /\ DequeueFindsJob
  /\ pc[Main] = "s_loop" /\ queue_length_ > 0 => ~IsEmpty(input_queue_)
  /\ (FLAG_parallel_recompilation_delay = 0 \/ ~AckReceived) => SignalsBounded

\* The worker consumed the last wake signal, read the flag unset and is about
\* to dequeue the one job there is.
NeverDequeueEmptyWitness ==
  /\ pc[Worker] = "cn_dequeue"
  /\ ~stop_thread_
  /\ Len(input_queue_) = 1
  /\ input_queue_semaphore_ = 0

\* C20: only the last job of the output queue can have a closure that is
\* still in the recompile queue.
PendingOnlyAtTail ==
  \A i \in 1..Len(output_queue_) :
    IsInRecompileQueue(marker, output_queue_[i]) => i = Len(output_queue_)

\* An eligible job at the front with a pending job behind it.
PendingOnlyAtTailWitness ==
  /\ Len(output_queue_) >= 2
  /\ ~IsInRecompileQueue(marker, Peek(output_queue_))
  /\ IsInRecompileQueue(marker, output_queue_[Len(output_queue_)])

====
